---- MODULE Spec2Model ----
(***************************************************************************)
(* uupd: the update orchestrator (cmd.Update) and its update drivers       *)
(* (drv.SystemUpdater, drv.FlatpakUpdater, drv.DistroboxUpdater, and the   *)
(* rpm-ostree and Brew drivers it is linked with).                         *)
(*                                                                         *)
(* One orchestration run is modelled step by step: Locking, pre-flight,    *)
(* driver construction, system-driver fallback selection, probing,         *)
(* accounting, one loop iteration per driver (the last one running on      *)
(* through the report and the lock release).                               *)
(***************************************************************************)
EXTENDS Integers, Sequences, FiniteSets, TLC

\* Largest number of user sessions session.ListUsers() returns.
MaxUsers == 2

VARIABLES
    pc,                 \* position of cmd.Update
    lockHolder,         \* holder of the lock file: "none", "self", "other"
    dryRun,             \* --dry-run
    verboseRun,         \* --verbose
    progressEnabled,    \* !--no-progress
    Ci,                 \* initConfiguration.Ci
    users,              \* session.ListUsers()
    systemUpdater,      \* drv.SystemUpdater value held by cmd.Update
    rpmOstreeUpdater,   \* drv.RpmOstreeUpdater value
    brewUpdater,        \* drv.BrewUpdater value
    flatpakUpdater,     \* drv.FlatpakUpdater value
    distroboxUpdater,   \* drv.DistroboxUpdater value
    setEnabledArg,      \* last argument passed to SetEnabled, per driver title
    isBootc,            \* result of drv.BootcCompatible
    enableUpd,          \* the enableUpd local
    mainSystemDriver,   \* title of the driver held as mainSystemDriver
    totalSteps,         \* the totalSteps local
    completedSteps,     \* number of tracker.IncrementSection calls so far
    events,             \* progress events emitted so far, in order
    updaters,           \* the updaters slice (driver values copied into it)
    idx,                \* number of loop iterations over updaters done
    invoked,            \* the Update() calls made so far, in order
    outputs,            \* the run-wide outputs slice
    procs,              \* external subprocesses launched by Update() calls
    systemOutdated,     \* the systemOutdated local
    errlog,             \* slog.Error messages logged so far
    emitted,            \* CommandOutputs logged by Reporting, in order
    report,             \* how the run ended
    version,            \* which revision of cmd.Update the two runs execute
    runs,               \* two concurrent runs of cmd.Update on one host
    lockFile,           \* the run holding the lock file (NoRun: nobody)
    arg,                \* the inputs of the driver call under examination
    ret                 \* what that call returned

\* The state of one run of the newest cmd.Update and of its drivers.
runVars == <<pc, lockHolder, dryRun, verboseRun, progressEnabled, Ci, users,
             systemUpdater, rpmOstreeUpdater, brewUpdater, flatpakUpdater,
             distroboxUpdater, setEnabledArg, isBootc, enableUpd,
             mainSystemDriver, totalSteps, completedSteps, events, updaters,
             idx, invoked, outputs, procs, systemOutdated, errlog, emitted,
             report>>

\* The state of the two-run and single-call specifications.
aux == <<version, runs, lockFile, arg, ret>>

vars == <<runVars, aux>>

\* A nil pointer.
NoValue == [nil |-> TRUE]

-----------------------------------------------------------------------------
(* session.User values and small helpers                                   *)

\* Go strings are modelled as sequences of tokens, "+" as concatenation.
Str(x) == <<x>>

User(i) == [Name |-> Str(ToString(i)), UID |-> i]

UserList(n) == [i \in 1..n |-> User(i)]

RECURSIVE Flatten(_)
Flatten(ss) == IF ss = <<>> THEN <<>> ELSE Head(ss) \o Flatten(Tail(ss))

RECURSIVE SumSeq(_)
SumSeq(s) == IF s = <<>> THEN 0 ELSE Head(s) + SumSeq(Tail(s))

\* Outcome of one external command: did it exit non-zero / fail to launch.
Outcomes(n) == [1..n -> BOOLEAN]

-----------------------------------------------------------------------------
(* Progress protocol: percent.ChangeTrackerMessageFancy and                *)
(* IncrementTracker.IncrementSection, as events on the tracker             *)

TrackerMessage(title, description) ==
    [kind |-> "label", Title |-> title, Description |-> description]

\* percent.ChangeTrackerMessageFancy(writer, tracker, progress, message):
\* the message is handed to the renderer when progress is on, and logged
\* when it is off.
ChangeTrackerMessageFancy(progress, message) ==
    [kind |-> "label", Progress |-> progress, Title |-> message.Title,
     Description |-> message.Description]

IncrementSection(err) == [kind |-> "inc", err |-> err]

\* drv.TrackerConfiguration{Tracker: tracker, Writer: &pw, Progress: ...}
TrackerConfiguration(progress) ==
    [Tracker |-> "tracker", Writer |-> "pw", Progress |-> progress]

CountInc(evs) == Cardinality({i \in 1..Len(evs) : evs[i].kind = "inc"})

-----------------------------------------------------------------------------
(* drv.CommandOutput                                                       *)

CommandOutput(context, cli, failure) ==
    [Context |-> context, Cli |-> cli, Failure |-> failure]

\* Result of one Update() call: the returned slice, the returned error,
\* the progress events it emitted and the subprocesses it launched.
UpdateResult(out, err, evs, launched) ==
    [out |-> out, err |-> err, events |-> evs, procs |-> launched]

-----------------------------------------------------------------------------
(* drv.UpdaterInitConfiguration and drv.DriverConfiguration                *)

\* The environment lookup table handed to every constructor (no overrides).
Environment == [v \in {} |-> ""]

UpdaterInitConfiguration(ci, dry, verbose) ==
    [Ci |-> ci, DryRun |-> dry, Verbose |-> verbose,
     Environment |-> Environment]

DriverConfiguration(title, description, userDesc, enabled, multiUser, dry) ==
    [Title |-> title, Description |-> description,
     UserDescription |-> userDesc, Enabled |-> enabled,
     MultiUser |-> multiUser, DryRun |-> dry]

\* "binaryPath, exists := Environment[VAR]; if !exists || binaryPath == """
BinaryPathOf(env, var, default) ==
    IF var \notin DOMAIN env \/ env[var] = "" THEN default ELSE env[var]

\* exec.Command(path, ...) can only start a process for a non-empty path.
CanLaunch(path) == path # ""

Proc(title, uid, failed) == [driver |-> title, uid |-> uid, failed |-> failed]

-----------------------------------------------------------------------------
(* drv.SystemUpdater (bootc)                                               *)

SystemUpdater_New(config) ==
    LET cfg == DriverConfiguration(Str("Bootc"), Str("System Image"), <<>>,
                                   ~config.Ci, FALSE, config.DryRun)
    IN  IF cfg.DryRun
        THEN [config |-> cfg, BinaryPath |-> ""]
        ELSE [config |-> cfg,
              BinaryPath |-> BinaryPathOf(config.Environment,
                                          "UUPD_BOOTC_BINARY",
                                          "/usr/bin/bootc")]

SystemUpdater_Config(up) == up.config

\* Value receiver: the assignment lands in the callee's copy of the driver;
\* the operator yields the caller's driver after the call.
SystemUpdater_SetEnabled(up, value) ==
    LET callee == [up EXCEPT !.config.Enabled = value]
    IN  up

SystemUpdater_Steps(up) == IF up.config.Enabled THEN 1 ELSE 0

\* Check() mutated: a failed command answers false.
SystemUpdater_Check_FalseOnError(up, probe) ==
    IF up.config.DryRun THEN [ok |-> TRUE, err |-> FALSE]
    ELSE IF probe = "error" \/ ~CanLaunch(up.BinaryPath)
         THEN [ok |-> FALSE, err |-> TRUE]
         ELSE [ok |-> probe = "changes", err |-> FALSE]

\* probe: "error" (command failed), "changes", "nochanges" (its output).
SystemUpdater_Check(up, probe) ==
    IF up.config.DryRun THEN [ok |-> TRUE, err |-> FALSE]
    ELSE IF probe = "error" \/ ~CanLaunch(up.BinaryPath)
         THEN [ok |-> TRUE, err |-> TRUE]
         ELSE [ok |-> probe = "changes", err |-> FALSE]

\* Instants are counted in TimeUnit-ths of a month, from 0 to MaxTime.
MaxTime == 4

TimeUnit == 2

Times == 0..MaxTime

\* time.Time.AddDate(0, months, 0)
AddMonths(t, months) == t + months * TimeUnit

\* What "<BinaryPath> status --format=json" does: status "error" (the
\* command fails), "badjson" (its output is not the expected JSON),
\* "unparsable" (the timestamp is not RFC 3339) or "ok", with the booted
\* image's timestamp; and what time.Now() reads.
OutdatedProbes ==
    [status : {"error", "badjson", "unparsable", "ok"},
     timestamp : Times, now : Times]

\* The returned pair, and whether a command was run for it.
ProbeResult(ok, err, probed) == [ok |-> ok, err |-> err, probed |-> probed]

\* Outdated() mutated: the comparison is turned around.
SystemUpdater_Outdated_After(dr, probe) ==
    IF dr.config.DryRun THEN ProbeResult(FALSE, FALSE, FALSE)
    ELSE LET oneMonthAgo == AddMonths(probe.now, -1)
         IN  IF probe.status = "error" \/ ~CanLaunch(dr.BinaryPath)
             THEN ProbeResult(FALSE, TRUE, TRUE)
             ELSE IF probe.status = "badjson"
             THEN ProbeResult(FALSE, TRUE, TRUE)
             ELSE IF probe.status = "unparsable"
             THEN ProbeResult(FALSE, FALSE, TRUE)
             ELSE ProbeResult(probe.timestamp > oneMonthAgo, FALSE, TRUE)

SystemUpdater_Outdated(dr, probe) ==
    IF dr.config.DryRun THEN ProbeResult(FALSE, FALSE, FALSE)
    ELSE LET oneMonthAgo == AddMonths(probe.now, -1)
         IN  IF probe.status = "error" \/ ~CanLaunch(dr.BinaryPath)
             THEN ProbeResult(FALSE, TRUE, TRUE)
             ELSE IF probe.status = "badjson"
             THEN ProbeResult(FALSE, TRUE, TRUE)
             ELSE IF probe.status = "unparsable"
             THEN ProbeResult(FALSE, FALSE, TRUE)
             ELSE ProbeResult(probe.timestamp < oneMonthAgo, FALSE, TRUE)

\* Update() mutated: an output is returned for a failed upgrade only.
SystemUpdater_Update_OutputOnFailureOnly(dr, fails) ==
    LET cli == <<dr.BinaryPath, "upgrade">>
        err == IF CanLaunch(dr.BinaryPath) THEN fails[1] ELSE TRUE
        tmpout == CommandOutput(Str("System update"), <<>>, err)
    IN  UpdateResult(IF err THEN <<tmpout>> ELSE <<>>, err, <<>>,
                     IF CanLaunch(dr.BinaryPath)
                     THEN <<Proc(dr.config.Title, 0, err)>> ELSE <<>>)

\* fails[1]: the outcome of "<BinaryPath> upgrade" when it can be started.
SystemUpdater_Update(dr, fails) ==
    LET cli == <<dr.BinaryPath, "upgrade">>
        err == IF CanLaunch(dr.BinaryPath) THEN fails[1] ELSE TRUE
        tmpout == CommandOutput(IF err THEN Str("System update") ELSE <<>>,
                                <<>>, err)
    IN  UpdateResult(<<tmpout>>, err, <<>>,
                     IF CanLaunch(dr.BinaryPath)
                     THEN <<Proc(dr.config.Title, 0, err)>> ELSE <<>>)

-----------------------------------------------------------------------------
(* drv.FlatpakUpdater                                                      *)

FlatpakUpdater_New(config) ==
    [config |-> DriverConfiguration(Str("Flatpak"), Str("System Apps"),
                                    Str("Apps for User:"), TRUE, TRUE,
                                    config.DryRun),
     Tracker |-> NoValue,
     binaryPath |-> BinaryPathOf(config.Environment, "UUPD_FLATPAK_BINARY",
                                 "/usr/bin/flatpak"),
     users |-> <<>>,
     usersEnabled |-> FALSE]

FlatpakUpdater_SetUsers(up, us) ==
    [up EXCEPT !.users = us, !.usersEnabled = TRUE]

FlatpakUpdater_Config(up) == up.config

FlatpakUpdater_SetEnabled(up, value) ==
    LET callee == [up EXCEPT !.config.Enabled = value]
    IN  up

\* Steps() mutated: the registered users are not counted.
FlatpakUpdater_Steps_RootOnly(up) ==
    IF up.config.Enabled THEN 1 ELSE 0

FlatpakUpdater_Steps(up) ==
    IF up.config.Enabled
    THEN 1 + (IF up.usersEnabled THEN Len(up.users) ELSE 0)
    ELSE 0

\* The context of the action run for one user: UserDescription + " " + Name
UserContext(up, user) == up.config.UserDescription \o Str(" ") \o user.Name

\* FlatpakUpdater.Update with every result filed under the driver's own
\* description (the per-user context is not assigned).
FlatpakUpdater_Update_SharedContext(up, fails) ==
    LET n == Len(up.users)
        rootMsg == ChangeTrackerMessageFancy(
                       up.Tracker.Progress,
                       TrackerMessage(up.config.Title, up.config.Description))
        userMsg(i) == ChangeTrackerMessageFancy(
                          up.Tracker.Progress,
                          TrackerMessage(up.config.Title,
                                         UserContext(up, up.users[i])))
        cli == <<up.binaryPath, "update", "-y">>
    IN  IF up.config.DryRun
        THEN UpdateResult(<<>>, FALSE,
                 <<rootMsg, IncrementSection(FALSE)>>
                   \o Flatten([i \in 1..n |->
                                 <<IncrementSection(FALSE), userMsg(i)>>]),
                 <<>>)
        ELSE UpdateResult(
                 [i \in 1..(n + 1) |->
                     CommandOutput(up.config.Description, cli, fails[i])],
                 FALSE,
                 <<rootMsg>>
                   \o Flatten([i \in 1..n |->
                                 <<IncrementSection(FALSE), userMsg(i)>>]),
                 <<Proc(up.config.Title, 0, fails[1])>>
                   \o [i \in 1..n |->
                         Proc(up.config.Title, up.users[i].UID,
                              fails[i + 1])])

\* fails[1] is the outcome of the root-level command, fails[i+1] the
\* outcome of the command run for up.users[i].
FlatpakUpdater_Update(up, fails) ==
    LET n == Len(up.users)
        rootMsg == ChangeTrackerMessageFancy(
                       up.Tracker.Progress,
                       TrackerMessage(up.config.Title, up.config.Description))
        userMsg(i) == ChangeTrackerMessageFancy(
                          up.Tracker.Progress,
                          TrackerMessage(up.config.Title,
                                         UserContext(up, up.users[i])))
        cli == <<up.binaryPath, "update", "-y">>
    IN  IF up.config.DryRun
        THEN UpdateResult(<<>>, FALSE,
                 <<rootMsg, IncrementSection(FALSE)>>
                   \o Flatten([i \in 1..n |->
                                 <<IncrementSection(FALSE), userMsg(i)>>]),
                 <<>>)
        ELSE UpdateResult(
                 <<CommandOutput(up.config.Description, cli, fails[1])>>
                   \o [i \in 1..n |->
                         CommandOutput(UserContext(up, up.users[i]), cli,
                                       fails[i + 1])],
                 FALSE,
                 <<rootMsg>>
                   \o Flatten([i \in 1..n |->
                                 <<IncrementSection(FALSE), userMsg(i)>>]),
                 <<Proc(up.config.Title, 0, fails[1])>>
                   \o [i \in 1..n |->
                         Proc(up.config.Title, up.users[i].UID,
                              fails[i + 1])])

-----------------------------------------------------------------------------
(* drv.DistroboxUpdater                                                    *)

DistroboxUpdater_New(config) ==
    [config |-> DriverConfiguration(Str("Distrobox"),
                                    Str("Rootful Distroboxes"),
                                    Str("Distroboxes for User:"), TRUE, TRUE,
                                    config.DryRun),
     Tracker |-> NoValue,
     binaryPath |-> BinaryPathOf(config.Environment, "UUPD_DISTROBOX_BINARY",
                                 "/usr/bin/distrobox"),
     users |-> <<>>,
     usersEnabled |-> FALSE]

DistroboxUpdater_SetUsers(up, us) ==
    [up EXCEPT !.users = us, !.usersEnabled = TRUE]

DistroboxUpdater_Config(up) == up.config

DistroboxUpdater_SetEnabled(up, value) ==
    LET callee == [up EXCEPT !.config.Enabled = value]
    IN  up

DistroboxUpdater_Steps(up) ==
    IF up.config.Enabled
    THEN 1 + (IF up.usersEnabled THEN Len(up.users) ELSE 0)
    ELSE 0

\* DistroboxUpdater.Update returning at the first command that fails.
DistroboxUpdater_Update_StopOnFailure(up, fails) ==
    LET n == Len(up.users)
        rootMsg == ChangeTrackerMessageFancy(
                       up.Tracker.Progress,
                       TrackerMessage(up.config.Title, up.config.Description))
        userMsg(i) == ChangeTrackerMessageFancy(
                          up.Tracker.Progress,
                          TrackerMessage(up.config.Title,
                                         UserContext(up, up.users[i])))
        cli == <<up.binaryPath, "upgrade", "-a">>
        failing == {i \in 1..(n + 1) : fails[i]}
        last == IF failing = {} THEN n + 1
                ELSE CHOOSE i \in failing : \A j \in failing : i <= j
    IN  IF up.config.DryRun
        THEN UpdateResult(<<>>, FALSE,
                 <<rootMsg, IncrementSection(FALSE)>>
                   \o Flatten([i \in 1..n |->
                                 <<IncrementSection(FALSE), userMsg(i)>>]),
                 <<>>)
        ELSE UpdateResult(
                 [i \in 1..last |->
                     CommandOutput(IF i = 1 THEN up.config.Description
                                   ELSE UserContext(up, up.users[i - 1]),
                                   cli, fails[i])],
                 FALSE,
                 <<rootMsg>>
                   \o Flatten([i \in 1..(last - 1) |->
                                 <<IncrementSection(FALSE), userMsg(i)>>]),
                 [i \in 1..last |->
                     Proc(up.config.Title,
                          IF i = 1 THEN 0 ELSE up.users[i - 1].UID,
                          fails[i])])

\* Update() mutated: without progress rendering the users' containers are
\* left alone.
DistroboxUpdater_Update_RootOnlyWhenQuiet(up, fails) ==
    LET n == IF up.Tracker.Progress THEN Len(up.users) ELSE 0
        rootMsg == ChangeTrackerMessageFancy(
                       up.Tracker.Progress,
                       TrackerMessage(up.config.Title, up.config.Description))
        userMsg(i) == ChangeTrackerMessageFancy(
                          up.Tracker.Progress,
                          TrackerMessage(up.config.Title,
                                         UserContext(up, up.users[i])))
        cli == <<up.binaryPath, "upgrade", "-a">>
    IN  IF up.config.DryRun
        THEN UpdateResult(<<>>, FALSE,
                 <<rootMsg, IncrementSection(FALSE)>>
                   \o Flatten([i \in 1..n |->
                                 <<IncrementSection(FALSE), userMsg(i)>>]),
                 <<>>)
        ELSE UpdateResult(
                 <<CommandOutput(up.config.Description, cli, fails[1])>>
                   \o [i \in 1..n |->
                         CommandOutput(UserContext(up, up.users[i]), cli,
                                       fails[i + 1])],
                 FALSE,
                 <<rootMsg>>
                   \o Flatten([i \in 1..n |->
                                 <<IncrementSection(FALSE), userMsg(i)>>]),
                 <<Proc(up.config.Title, 0, fails[1])>>
                   \o [i \in 1..n |->
                         Proc(up.config.Title, up.users[i].UID,
                              fails[i + 1])])

DistroboxUpdater_Update(up, fails) ==
    LET n == Len(up.users)
        rootMsg == ChangeTrackerMessageFancy(
                       up.Tracker.Progress,
                       TrackerMessage(up.config.Title, up.config.Description))
        userMsg(i) == ChangeTrackerMessageFancy(
                          up.Tracker.Progress,
                          TrackerMessage(up.config.Title,
                                         UserContext(up, up.users[i])))
        cli == <<up.binaryPath, "upgrade", "-a">>
    IN  IF up.config.DryRun
        THEN UpdateResult(<<>>, FALSE,
                 <<rootMsg, IncrementSection(FALSE)>>
                   \o Flatten([i \in 1..n |->
                                 <<IncrementSection(FALSE), userMsg(i)>>]),
                 <<>>)
        ELSE UpdateResult(
                 <<CommandOutput(up.config.Description, cli, fails[1])>>
                   \o [i \in 1..n |->
                         CommandOutput(UserContext(up, up.users[i]), cli,
                                       fails[i + 1])],
                 FALSE,
                 <<rootMsg>>
                   \o Flatten([i \in 1..n |->
                                 <<IncrementSection(FALSE), userMsg(i)>>]),
                 <<Proc(up.config.Title, 0, fails[1])>>
                   \o [i \in 1..n |->
                         Proc(up.config.Title, up.users[i].UID,
                              fails[i + 1])])

-----------------------------------------------------------------------------
(* drv.RpmOstreeUpdater: the legacy system driver                          *)

RpmOstreeUpdater_New(config) ==
    [config |-> DriverConfiguration(Str("rpm-ostree"), Str("System Updates"),
                                    <<>>, ~config.Ci, FALSE,
                                    config.DryRun),
     BinaryPath |-> BinaryPathOf(config.Environment, "UUPD_RPM_OSTREE_BINARY",
                                 "/usr/bin/rpm-ostree")]

RpmOstreeUpdater_Config(up) == up.config

RpmOstreeUpdater_SetEnabled(up, value) ==
    [up EXCEPT !.config.Enabled = value]

RpmOstreeUpdater_Steps(up) == IF up.config.Enabled THEN 1 ELSE 0

\* A failed probe is reported and answers false.
RpmOstreeUpdater_Check(up, probe) ==
    IF up.config.DryRun THEN [ok |-> TRUE, err |-> FALSE]
    ELSE IF probe = "error" THEN [ok |-> FALSE, err |-> TRUE]
         ELSE [ok |-> probe = "changes", err |-> FALSE]

RpmOstreeUpdater_Outdated(up, probe) ==
    IF up.config.DryRun THEN ProbeResult(FALSE, FALSE, FALSE)
    ELSE IF probe.status \in {"error", "badjson"}
         THEN ProbeResult(FALSE, TRUE, TRUE)
         ELSE IF probe.status = "unparsable"
         THEN ProbeResult(FALSE, FALSE, TRUE)
         ELSE ProbeResult(probe.timestamp < AddMonths(probe.now, -1),
                          FALSE, TRUE)

RpmOstreeUpdater_Update(up, fails) ==
    IF up.config.DryRun
    THEN UpdateResult(<<>>, FALSE, <<>>, <<>>)
    ELSE UpdateResult(
             <<CommandOutput(IF fails[1] THEN Str("System update") ELSE <<>>,
                             <<>>, fails[1])>>,
             fails[1], <<>>, <<Proc(up.config.Title, 0, fails[1])>>)

-----------------------------------------------------------------------------
(* drv.BrewUpdater: the single-user package-manager driver                 *)

BrewUpdater_New(config) ==
    [config |-> DriverConfiguration(Str("Brew"), Str("CLI Apps"), <<>>,
                                    TRUE, FALSE, config.DryRun)]

BrewUpdater_Config(up) == up.config

BrewUpdater_SetEnabled(up, value) ==
    [up EXCEPT !.config.Enabled = value]

BrewUpdater_Steps(up) == IF up.config.Enabled THEN 1 ELSE 0

BrewUpdater_Update(up, fails) ==
    IF up.config.DryRun
    THEN UpdateResult(<<>>, FALSE, <<>>, <<>>)
    ELSE UpdateResult(
             <<CommandOutput(up.config.Description, <<>>, fails[1])>>,
             fails[1], <<>>, <<Proc(up.config.Title, 0, fails[1])>>)

\* drv.BootcCompatible(binaryPath): "error" / "compatible" / "incompatible"
\* is what "<binaryPath> status" reports; a path that cannot be started
\* is never compatible.
BootcCompatible(binaryPath, probe) ==
    IF ~CanLaunch(binaryPath) \/ probe = "error"
    THEN [ok |-> FALSE, err |-> TRUE]
    ELSE [ok |-> probe = "compatible", err |-> FALSE]

-----------------------------------------------------------------------------
(* Dispatch through the drv.UpdateDriver / drv.SystemUpdateDriver          *)
(* interfaces on the driver's title                                        *)

Title(up) == up.config.Title

Steps(up) ==
    CASE Title(up) = Str("Bootc")      -> SystemUpdater_Steps(up)
      [] Title(up) = Str("rpm-ostree") -> RpmOstreeUpdater_Steps(up)
      [] Title(up) = Str("Brew")       -> BrewUpdater_Steps(up)
      [] Title(up) = Str("Flatpak")    -> FlatpakUpdater_Steps(up)
      [] Title(up) = Str("Distrobox")  -> DistroboxUpdater_Steps(up)

Check(up, probe) ==
    CASE Title(up) = Str("Bootc")      -> SystemUpdater_Check(up, probe)
      [] Title(up) = Str("rpm-ostree") -> RpmOstreeUpdater_Check(up, probe)

Outdated(up, probe) ==
    CASE Title(up) = Str("Bootc")      -> SystemUpdater_Outdated(up, probe)
      [] Title(up) = Str("rpm-ostree") -> RpmOstreeUpdater_Outdated(up, probe)

DriverUpdate(up, fails) ==
    CASE Title(up) = Str("Bootc")      -> SystemUpdater_Update(up, fails)
      [] Title(up) = Str("rpm-ostree") -> RpmOstreeUpdater_Update(up, fails)
      [] Title(up) = Str("Brew")       -> BrewUpdater_Update(up, fails)
      [] Title(up) = Str("Flatpak")    -> FlatpakUpdater_Update(up, fails)
      [] Title(up) = Str("Distrobox")  -> DistroboxUpdater_Update(up, fails)

\* Number of external commands an Update() of this driver value decides on.
Units(up) == IF "users" \in DOMAIN up THEN 1 + Len(up.users) ELSE 1

-----------------------------------------------------------------------------
(* cmd.Update: the orchestrator                                            *)

DriverNames == {"Bootc", "rpm-ostree", "Brew", "Flatpak", "Distrobox"}

\* A driver variable before its constructor has run.
NilDriver == [config |-> DriverConfiguration(<<>>, <<>>, <<>>, FALSE, FALSE,
                                             FALSE)]

NotCalled == [called |-> FALSE, value |-> FALSE]

Called(v) == [called |-> TRUE, value |-> v]

\* No run of an older revision, no second run, no call under examination.
NoRun == "none"

\* No driver call is under examination, or it has not returned yet.
NoCall == [call |-> "none"]

AuxIdle ==
    /\ version = "part_001"
    /\ runs = <<>>
    /\ lockFile = NoRun
    /\ arg = NoCall
    /\ ret = NoCall

RunInit ==
    /\ pc = "Locking"
    /\ lockHolder \in {"none", "other"}
    /\ dryRun = FALSE
    /\ verboseRun = FALSE
    /\ progressEnabled = FALSE
    /\ Ci = FALSE
    /\ users = <<>>
    /\ systemUpdater = NilDriver
    /\ rpmOstreeUpdater = NilDriver
    /\ brewUpdater = NilDriver
    /\ flatpakUpdater = NilDriver
    /\ distroboxUpdater = NilDriver
    /\ setEnabledArg = [d \in DriverNames |-> NotCalled]
    /\ isBootc = FALSE
    /\ enableUpd = TRUE
    /\ mainSystemDriver = NilDriver
    /\ totalSteps = 0
    /\ completedSteps = 0
    /\ events = <<>>
    /\ updaters = <<>>
    /\ idx = 0
    /\ invoked = <<>>
    /\ outputs = <<>>
    /\ procs = <<>>
    /\ systemOutdated = FALSE
    /\ errlog = {}
    /\ emitted = <<>>
    /\ report = "running"

Init == RunInit /\ AuxIdle

\* Lines 18-28: filelock.AcquireLock() and the deferred release.
AcquireLock ==
    /\ pc = "Locking"
    /\ IF lockHolder = "none"
       THEN /\ lockHolder' = "self"
            /\ pc' = "Preflight"
            /\ UNCHANGED <<errlog, report>>
       ELSE /\ errlog' = errlog \cup {"is uupd already running?"}
            /\ report' = "lock busy"
            /\ pc' = "Done"
            /\ UNCHANGED lockHolder
    /\ UNCHANGED <<dryRun, verboseRun, progressEnabled, Ci, users,
                   systemUpdater, rpmOstreeUpdater, brewUpdater,
                   flatpakUpdater, distroboxUpdater, setEnabledArg, isBootc,
                   enableUpd, mainSystemDriver, totalSteps, completedSteps,
                   events, updaters, idx, invoked, outputs, procs,
                   systemOutdated, emitted>>
    /\ UNCHANGED aux

\* Every return after line 28 runs the deferred filelock.ReleaseLock.
Return(how) ==
    /\ pc' = "Done"
    /\ report' = how
    /\ lockHolder' = "none"

PreflightFailures ==
    {"Failed to get flag", "Hardware checks failed", "Failed to list users"}

\* Lines 30-59: flags, checks.RunHwChecks(), session.ListUsers().
Preflight ==
    /\ pc = "Preflight"
    /\ \/ \E why \in PreflightFailures :
             /\ errlog' = errlog \cup {why}
             /\ Return(why)
             /\ UNCHANGED <<dryRun, verboseRun, users>>
       \/ \E dry \in BOOLEAN, verbose \in BOOLEAN, n \in 0..MaxUsers :
             /\ dryRun' = dry
             /\ verboseRun' = verbose
             /\ users' = UserList(n)
             /\ pc' = "Initializing"
             /\ UNCHANGED <<errlog, report, lockHolder>>
    /\ UNCHANGED <<progressEnabled, Ci, systemUpdater, rpmOstreeUpdater,
                   brewUpdater, flatpakUpdater, distroboxUpdater,
                   setEnabledArg, isBootc, enableUpd, mainSystemDriver,
                   totalSteps, completedSteps, events, updaters, idx,
                   invoked, outputs, procs, systemOutdated, emitted>>
    /\ UNCHANGED aux

\* Initializing mutated: the constructor error of the Brew driver is not
\* acted upon, the driver stays as New() returned it.
Initializing_BrewErrorIgnored ==
    /\ pc = "Initializing"
    /\ \E ci \in BOOLEAN, brewErr \in BOOLEAN :
          LET initConfiguration ==
                  UpdaterInitConfiguration(ci, dryRun, verboseRun)
              brew0 == BrewUpdater_New(initConfiguration)
              flatpak0 == FlatpakUpdater_New(initConfiguration)
              distrobox0 == DistroboxUpdater_New(initConfiguration)
          IN  /\ Ci' = ci
              /\ brewUpdater' = brew0
              /\ flatpakUpdater' =
                     FlatpakUpdater_SetUsers(
                         FlatpakUpdater_SetEnabled(flatpak0, TRUE), users)
              /\ distroboxUpdater' =
                     DistroboxUpdater_SetUsers(
                         DistroboxUpdater_SetEnabled(distrobox0, TRUE), users)
              /\ setEnabledArg' =
                     [setEnabledArg EXCEPT !["Brew"] = Called(~brewErr),
                                           !["Flatpak"] = Called(TRUE),
                                           !["Distrobox"] = Called(TRUE)]
    /\ pc' = "Selecting"
    /\ UNCHANGED <<lockHolder, dryRun, verboseRun, progressEnabled, users,
                   systemUpdater, rpmOstreeUpdater, isBootc, enableUpd,
                   mainSystemDriver, totalSteps, completedSteps, events,
                   updaters, idx, invoked, outputs, procs, systemOutdated,
                   errlog, emitted, report>>
    /\ UNCHANGED aux

\* Lines 61-76: the init configuration and the Brew, Flatpak and Distrobox
\* drivers.  brewErr: drv.BrewUpdater{}.New returned an error.
Initializing ==
    /\ pc = "Initializing"
    /\ \E ci \in BOOLEAN, brewErr \in BOOLEAN :
          LET initConfiguration ==
                  UpdaterInitConfiguration(ci, dryRun, verboseRun)
              brew0 == BrewUpdater_New(initConfiguration)
              flatpak0 == FlatpakUpdater_New(initConfiguration)
              distrobox0 == DistroboxUpdater_New(initConfiguration)
          IN  /\ Ci' = ci
              /\ brewUpdater' = BrewUpdater_SetEnabled(brew0, ~brewErr)
              /\ flatpakUpdater' =
                     FlatpakUpdater_SetUsers(
                         FlatpakUpdater_SetEnabled(flatpak0, TRUE), users)
              /\ distroboxUpdater' =
                     DistroboxUpdater_SetUsers(
                         DistroboxUpdater_SetEnabled(distrobox0, TRUE), users)
              /\ setEnabledArg' =
                     [setEnabledArg EXCEPT !["Brew"] = Called(~brewErr),
                                           !["Flatpak"] = Called(TRUE),
                                           !["Distrobox"] = Called(TRUE)]
    /\ pc' = "Selecting"
    /\ UNCHANGED <<lockHolder, dryRun, verboseRun, progressEnabled, users,
                   systemUpdater, rpmOstreeUpdater, isBootc, enableUpd,
                   mainSystemDriver, totalSteps, completedSteps, events,
                   updaters, idx, invoked, outputs, procs, systemOutdated,
                   errlog, emitted, report>>
    /\ UNCHANGED aux

\* Lines 78-106: both system drivers are constructed and one is selected.
\* rpmErr: drv.RpmOstreeUpdater{}.New returned an error; probe: what
\* drv.BootcCompatible finds.
FallbackSelection ==
    /\ pc = "Selecting"
    /\ \E rpmErr \in BOOLEAN,
          probe \in {"error", "compatible", "incompatible"} :
          LET initConfiguration ==
                  UpdaterInitConfiguration(Ci, dryRun, verboseRun)
              rpm0 == RpmOstreeUpdater_New(initConfiguration)
              sys0 == SystemUpdater_New(initConfiguration)
              enable == ~rpmErr
              compat == BootcCompatible(sys0.BinaryPath, probe)
              bootc == IF compat.err THEN FALSE ELSE compat.ok
              sys1 == SystemUpdater_SetEnabled(sys0, enable /\ bootc)
              rpm1 == RpmOstreeUpdater_SetEnabled(rpm0, enable /\ ~bootc)
          IN  /\ isBootc' = bootc
              /\ enableUpd' = enable
              /\ systemUpdater' = sys1
              /\ rpmOstreeUpdater' = rpm1
              /\ setEnabledArg' =
                     [setEnabledArg EXCEPT
                          !["Bootc"] = Called(enable /\ bootc),
                          !["rpm-ostree"] = Called(enable /\ ~bootc)]
              /\ mainSystemDriver' =
                     IF ~SystemUpdater_Config(sys1).Enabled
                     THEN rpm1 ELSE sys1
    /\ pc' = "Probing"
    /\ UNCHANGED <<lockHolder, dryRun, verboseRun, progressEnabled, Ci,
                   users, brewUpdater, flatpakUpdater, distroboxUpdater,
                   totalSteps, completedSteps, events, updaters, idx,
                   invoked, outputs, procs, systemOutdated, errlog, emitted,
                   report>>
    /\ UNCHANGED aux

\* Lines 108-113: mainSystemDriver.Check().
ProbeCheck ==
    /\ pc = "Probing"
    /\ \E probe \in {"error", "changes", "nochanges"} :
          LET r == Check(mainSystemDriver, probe)
          IN  /\ enableUpd' = r.ok
              /\ errlog' = IF r.err
                           THEN errlog \cup {"Failed checking for updates"}
                           ELSE errlog
    /\ pc' = "Accounting"
    /\ UNCHANGED <<lockHolder, dryRun, verboseRun, progressEnabled, Ci,
                   users, systemUpdater, rpmOstreeUpdater, brewUpdater,
                   flatpakUpdater, distroboxUpdater, setEnabledArg, isBootc,
                   mainSystemDriver, totalSteps, completedSteps, events,
                   updaters, idx, invoked, outputs, procs, systemOutdated,
                   emitted, report>>
    /\ UNCHANGED aux

\* Accounting mutated: the error of the --no-progress flag is logged and the
\* run goes on.
Accounting_IgnoreFlagError ==
    /\ pc = "Accounting"
    /\ totalSteps' = BrewUpdater_Steps(brewUpdater)
                       + FlatpakUpdater_Steps(flatpakUpdater)
                       + DistroboxUpdater_Steps(distroboxUpdater)
                       + (IF enableUpd THEN Steps(mainSystemDriver) ELSE 0)
    /\ \E flagErr \in BOOLEAN, noProgress \in BOOLEAN :
          /\ errlog' = IF flagErr THEN errlog \cup {"Failed to get flag"}
                       ELSE errlog
          /\ progressEnabled' = ~noProgress
          /\ flatpakUpdater' =
                 [flatpakUpdater EXCEPT
                      !.Tracker = TrackerConfiguration(~noProgress)]
          /\ distroboxUpdater' =
                 [distroboxUpdater EXCEPT
                      !.Tracker = TrackerConfiguration(~noProgress)]
          /\ pc' = "Outdated"
          /\ UNCHANGED <<report, lockHolder>>
    /\ UNCHANGED <<dryRun, verboseRun, Ci, users, systemUpdater,
                   rpmOstreeUpdater, brewUpdater, setEnabledArg, isBootc,
                   enableUpd, mainSystemDriver, completedSteps, events,
                   updaters, idx, invoked, outputs, procs, systemOutdated,
                   emitted>>
    /\ UNCHANGED aux

\* Lines 115-146: totalSteps, the --no-progress flag, the tracker and its
\* distribution to the multi-user drivers.
Accounting ==
    /\ pc = "Accounting"
    /\ totalSteps' = BrewUpdater_Steps(brewUpdater)
                       + FlatpakUpdater_Steps(flatpakUpdater)
                       + DistroboxUpdater_Steps(distroboxUpdater)
                       + (IF enableUpd THEN Steps(mainSystemDriver) ELSE 0)
    /\ \/ /\ errlog' = errlog \cup {"Failed to get flag"}
          /\ Return("Failed to get flag")
          /\ UNCHANGED <<progressEnabled, flatpakUpdater, distroboxUpdater>>
       \/ \E noProgress \in BOOLEAN :
             /\ progressEnabled' = ~noProgress
             /\ flatpakUpdater' =
                 [flatpakUpdater EXCEPT
                      !.Tracker = TrackerConfiguration(~noProgress)]
             /\ distroboxUpdater' =
                    [distroboxUpdater EXCEPT
                      !.Tracker = TrackerConfiguration(~noProgress)]
             /\ pc' = "Outdated"
             /\ UNCHANGED <<errlog, report, lockHolder>>
    /\ UNCHANGED <<dryRun, verboseRun, Ci, users, systemUpdater,
                   rpmOstreeUpdater, brewUpdater, setEnabledArg, isBootc,
                   enableUpd, mainSystemDriver, completedSteps, events,
                   updaters, idx, invoked, outputs, procs, systemOutdated,
                   emitted>>
    /\ UNCHANGED aux

\* ProbeOutdated mutated: the updaters slice lists Flatpak before Brew.
ProbeOutdated_FlatpakBeforeBrew ==
    /\ pc = "Outdated"
    /\ \E probe \in OutdatedProbes :
          LET r == Outdated(mainSystemDriver, probe)
          IN  /\ systemOutdated' = r.ok
              /\ errlog' =
                     IF r.err
                     THEN errlog \cup {"Failed checking if system is out of date"}
                     ELSE errlog
    /\ updaters' = <<mainSystemDriver, flatpakUpdater, brewUpdater,
                     distroboxUpdater>>
    /\ pc' = "Executing"
    /\ UNCHANGED <<lockHolder, dryRun, verboseRun, progressEnabled, Ci,
                   users, systemUpdater, rpmOstreeUpdater, brewUpdater,
                   flatpakUpdater, distroboxUpdater, setEnabledArg, isBootc,
                   enableUpd, mainSystemDriver, totalSteps, completedSteps,
                   events, idx, invoked, outputs, procs, emitted, report>>
    /\ UNCHANGED aux

\* ProbeOutdated mutated: the updaters slice holds the multi-user drivers as
\* they were before the Tracker was assigned to them.
ProbeOutdated_CopiesBeforeTracker ==
    /\ pc = "Outdated"
    /\ \E probe \in OutdatedProbes :
          LET r == Outdated(mainSystemDriver, probe)
          IN  /\ systemOutdated' = r.ok
              /\ errlog' =
                     IF r.err
                     THEN errlog \cup {"Failed checking if system is out of date"}
                     ELSE errlog
    /\ updaters' = <<mainSystemDriver, brewUpdater,
                     [flatpakUpdater EXCEPT !.Tracker = NoValue],
                     [distroboxUpdater EXCEPT !.Tracker = NoValue]>>
    /\ pc' = "Executing"
    /\ UNCHANGED <<lockHolder, dryRun, verboseRun, progressEnabled, Ci,
                   users, systemUpdater, rpmOstreeUpdater, brewUpdater,
                   flatpakUpdater, distroboxUpdater, setEnabledArg, isBootc,
                   enableUpd, mainSystemDriver, totalSteps, completedSteps,
                   events, idx, invoked, outputs, procs, emitted, report>>
    /\ UNCHANGED aux

\* Lines 148-165: mainSystemDriver.Outdated(), the staleness warning, and
\* the updaters slice.
ProbeOutdated ==
    /\ pc = "Outdated"
    /\ \E probe \in OutdatedProbes :
          LET r == Outdated(mainSystemDriver, probe)
          IN  /\ systemOutdated' = r.ok
              /\ errlog' =
                     IF r.err
                     THEN errlog \cup {"Failed checking if system is out of date"}
                     ELSE errlog
    /\ updaters' = <<mainSystemDriver, brewUpdater, flatpakUpdater,
                     distroboxUpdater>>
    /\ pc' = "Executing"
    /\ UNCHANGED <<lockHolder, dryRun, verboseRun, progressEnabled, Ci,
                   users, systemUpdater, rpmOstreeUpdater, brewUpdater,
                   flatpakUpdater, distroboxUpdater, setEnabledArg, isBootc,
                   enableUpd, mainSystemDriver, totalSteps, completedSteps,
                   events, idx, invoked, outputs, procs, emitted, report>>
    /\ UNCHANGED aux

\* One updater.Update() call of the run: the position of the driver in
\* updaters, the error returned, and where the results it returned, the
\* progress events it emitted and the subprocesses it launched lie in
\* outputs, events and procs.
Invocation(pos, res, outFrom, evFrom, procFrom) ==
    [index |-> pos, err |-> res.err,
     outFrom |-> outFrom, outLen |-> Len(res.out),
     evFrom |-> evFrom, evLen |-> Len(res.events),
     procFrom |-> procFrom, procLen |-> Len(res.procs)]

Slice(s, from, len) == SubSeq(s, from + 1, from + len)

\* The i-th Update() call: its driver, the error and the results it
\* returned, the progress events it emitted, the subprocesses it launched.
InvDriver(i) == updaters[invoked[i].index]

InvErr(i) == invoked[i].err

InvOut(i) == Slice(outputs, invoked[i].outFrom, invoked[i].outLen)

InvEvents(i) == Slice(events, invoked[i].evFrom, invoked[i].evLen)

InvProcs(i) == Slice(procs, invoked[i].procFrom, invoked[i].procLen)

Failures(outs) == SelectSeq(outs, LAMBDA o : o.Failure)

\* The report mutated: outside verbose mode the loop over the failures stops
\* after the first one.
Reporting_FirstFailureOnly(outs) ==
    IF verboseRun
    THEN /\ emitted' = outs
         /\ Return("Verbose run requested")
    ELSE IF Len(Failures(outs)) > 0
    THEN /\ emitted' = <<Failures(outs)[1]>>
         /\ Return("Exited with failed updates.")
    ELSE /\ emitted' = <<>>
         /\ Return("Updates Completed Successfully")

\* Lines 182-213: the report on the collected outputs, then the deferred
\* lock release.
Reporting(outs) ==
    IF verboseRun
    THEN /\ emitted' = outs
         /\ Return("Verbose run requested")
    ELSE IF Len(Failures(outs)) > 0
    THEN /\ emitted' = Failures(outs)
         /\ Return("Exited with failed updates.")
    ELSE /\ emitted' = <<>>
         /\ Return("Updates Completed Successfully")

\* The end of a loop iteration: the next updater, or past the loop into the
\* report when this was the last one.
Continue(outs) ==
    IF idx + 1 = Len(updaters)
    THEN Reporting(outs)
    ELSE /\ pc' = "Executing"
         /\ UNCHANGED <<emitted, report, lockHolder>>

\* Lines 167-180: one iteration of the loop over updaters (and, after the
\* last one, lines 182-213).  A nil Tracker in a multi-user driver makes
\* Update() panic; the deferred release still runs.
Iterate ==
    /\ pc = "Executing"
    /\ idx < Len(updaters)
    /\ \E updater \in {updaters[idx + 1]} :
       LET drvConfig == updater.config
       IN  IF ~drvConfig.Enabled
           THEN /\ Continue(outputs)
                /\ UNCHANGED <<events, completedSteps, invoked, outputs,
                               procs>>
           ELSE IF "Tracker" \in DOMAIN updater /\ updater.Tracker = NoValue
           THEN /\ pc' = "Panicked"
                /\ report' = "panic"
                /\ lockHolder' = "none"
                /\ UNCHANGED <<events, completedSteps, invoked, outputs,
                               procs, emitted>>
           ELSE \E fails \in Outcomes(Units(updater)) :
                \E res \in {DriverUpdate(updater, fails)} :
                   LET msg == IF ~drvConfig.MultiUser
                              THEN <<ChangeTrackerMessageFancy(
                                         progressEnabled,
                                         TrackerMessage(
                                             drvConfig.Title,
                                             drvConfig.Description))>>
                              ELSE <<>>
                       evs == msg \o res.events
                                  \o <<IncrementSection(res.err)>>
                   IN  /\ events' = events \o evs
                       /\ completedSteps' = completedSteps + CountInc(evs)
                       /\ outputs' = outputs \o res.out
                       /\ procs' = procs \o res.procs
                       /\ invoked' =
                              Append(invoked,
                                     Invocation(idx + 1, res, Len(outputs),
                                                Len(events) + Len(msg),
                                                Len(procs)))
                       /\ Continue(outputs')
    /\ idx' = idx + 1
    /\ UNCHANGED <<dryRun, verboseRun, progressEnabled, Ci, users,
                   systemUpdater, rpmOstreeUpdater, brewUpdater,
                   flatpakUpdater, distroboxUpdater, setEnabledArg, isBootc,
                   enableUpd, mainSystemDriver, totalSteps, updaters,
                   systemOutdated, errlog>>
    /\ UNCHANGED aux

Next ==
    \/ AcquireLock
    \/ Preflight
    \/ Initializing
    \/ FallbackSelection
    \/ ProbeCheck
    \/ Accounting
    \/ ProbeOutdated
    \/ Iterate

Spec == Init /\ [][Next]_vars
-----------------------------------------------------------------------------
(* Two runs of cmd.Update on one host, in each revision of the orchestrator *)
(* the repository holds: what each run does with the lock file.             *)

Versions == {"part_001", "cmd/update.go", "part_002"}

RunIds == {"a", "b"}

\* The updaters a run walks through (system, Brew, Flatpak, Distrobox).
NumUpdaters == 4

\* The checks that end a run before any driver is updated.  The older
\* revisions also end on a failing driver lookup or probe.
AbortReasons(v) ==
    IF v = "part_001"
    THEN PreflightFailures
    ELSE PreflightFailures \cup {"Failed to get system update driver",
                                 "Unable to determine if image is outdated",
                                 "Failed to check for image updates"}

\* Whether the lock is released when a run that holds it ends with `how`.
\* part_001 defers the release and ends by return only.  cmd/update.go defers
\* it too, but ends its aborts with log.Fatalf, which exits the process
\* without running deferred calls.  part_002 has no defer: it releases on the
\* last line, which neither log.Fatalf nor the return of the failure branch
\* reaches.
ReleasesOn(v, how) ==
    CASE v = "part_001" -> TRUE
      [] v = "cmd/update.go" ->
             how \in {"Exited with failed updates.",
                      "Updates Completed Successfully"}
      [] v = "part_002" -> how = "Updates Completed Successfully"

NewRun ==
    [pc |-> "Locking", idx |-> 0, updates |-> 0, failed |-> FALSE,
     end |-> "running"]

InitLock ==
    /\ RunInit
    /\ lockHolder = "none"
    /\ version \in Versions
    /\ runs = [r \in RunIds |-> NewRun]
    /\ lockFile = NoRun
    /\ arg = NoCall
    /\ ret = NoCall

\* The run ends: return or log.Fatalf.
End(r, how) ==
    /\ runs' = [runs EXCEPT ![r] = [@ EXCEPT !.pc = "Done", !.end = how]]
    /\ lockFile' = IF lockFile = r /\ ReleasesOn(version, how)
                   THEN NoRun ELSE lockFile

\* AcquireLock() mutated: a busy lock is logged and the run goes on.
LAcquire_ProceedWhenBusy(r) ==
    /\ runs[r].pc = "Locking"
    /\ lockFile' = IF lockFile = NoRun THEN r ELSE lockFile
    /\ runs' = [runs EXCEPT ![r] = [@ EXCEPT !.pc = "Preflight"]]
    /\ UNCHANGED <<version, arg, ret>>
    /\ UNCHANGED runVars

\* filelock.AcquireLock(): taken when free, an error at once when held.
LAcquire(r) ==
    /\ runs[r].pc = "Locking"
    /\ IF lockFile = NoRun
       THEN /\ lockFile' = r
            /\ runs' = [runs EXCEPT ![r] = [@ EXCEPT !.pc = "Preflight"]]
       ELSE End(r, "lock busy")
    /\ UNCHANGED <<version, arg, ret>>
    /\ UNCHANGED runVars

\* A flag, the hardware check, user enumeration (or, in the older revisions,
\* a probe) fails.
LAbort(r) ==
    /\ runs[r].pc = "Preflight"
    /\ \E reason \in AbortReasons(version) : End(r, reason)
    /\ UNCHANGED <<version, arg, ret>>
    /\ UNCHANGED runVars

\* All of them pass.
LProceed(r) ==
    /\ runs[r].pc = "Preflight"
    /\ runs' = [runs EXCEPT ![r] = [@ EXCEPT !.pc = "Executing"]]
    /\ UNCHANGED <<version, lockFile, arg, ret>>
    /\ UNCHANGED runVars

\* The next updater: skipped, or its Update() invoked, which may fail.
LUpdate(r) ==
    /\ runs[r].pc = "Executing"
    /\ runs[r].idx < NumUpdaters
    /\ \E enabled \in BOOLEAN, fails \in BOOLEAN :
          runs' = [runs EXCEPT ![r] =
                      [@ EXCEPT !.idx = @ + 1,
                                !.updates = IF enabled THEN @ + 1 ELSE @,
                                !.failed = @ \/ (enabled /\ fails)]]
    /\ UNCHANGED <<version, lockFile, arg, ret>>
    /\ UNCHANGED runVars

\* The report: the verbose return of part_001, the failure branch, or the
\* success message.
LReport(r) ==
    /\ runs[r].pc = "Executing"
    /\ runs[r].idx = NumUpdaters
    /\ \E verbose \in IF version = "part_001" THEN BOOLEAN ELSE {FALSE} :
          End(r, IF verbose THEN "Verbose run requested"
                 ELSE IF runs[r].failed THEN "Exited with failed updates."
                 ELSE "Updates Completed Successfully")
    /\ UNCHANGED <<version, arg, ret>>
    /\ UNCHANGED runVars

NextLock ==
    \E r \in RunIds :
       \/ LAcquire(r)
       \/ LAbort(r)
       \/ LProceed(r)
       \/ LUpdate(r)
       \/ LReport(r)

SpecLock == InitLock /\ [][NextLock]_vars

-----------------------------------------------------------------------------
(* One call of SystemUpdater.Outdated(), on a driver as New() builds it.    *)

InitOutdated ==
    /\ RunInit
    /\ lockHolder = "none"
    /\ version = "part_001"
    /\ runs = <<>>
    /\ lockFile = NoRun
    /\ \E ci \in BOOLEAN, dry \in BOOLEAN :
          arg \in [dr : {SystemUpdater_New(
                             UpdaterInitConfiguration(ci, dry, FALSE))},
                   probe : OutdatedProbes]
    /\ ret = NoCall

CallOutdated ==
    /\ ret = NoCall
    /\ ret' = [call |-> "Outdated",
               value |-> SystemUpdater_Outdated(arg.dr, arg.probe)]
    /\ UNCHANGED <<version, runs, lockFile, arg>>
    /\ UNCHANGED runVars

NextOutdated == CallOutdated

SpecOutdated == InitOutdated /\ [][NextOutdated]_vars

-----------------------------------------------------------------------------
(* The five drivers configured through their methods, as a caller of the    *)
(* drv package can: from the zero values, New(), SetEnabled(), SetUsers()   *)
(* and Steps(), then the selection, Check() and step total of cmd.Update.   *)

\* The most user sessions handed to SetUsers.
MaxSessions == 3

\* drv.SystemUpdater{}, drv.FlatpakUpdater{} and drv.DistroboxUpdater{}
ZeroSystem == [config |-> NilDriver.config, BinaryPath |-> ""]

ZeroMultiUser ==
    [config |-> NilDriver.config, Tracker |-> NoValue, binaryPath |-> "",
     users |-> <<>>, usersEnabled |-> FALSE]

InitDriver ==
    /\ pc = "Zero"
    /\ lockHolder = "none"
    /\ dryRun = FALSE
    /\ verboseRun = FALSE
    /\ progressEnabled = FALSE
    /\ Ci = FALSE
    /\ users = <<>>
    /\ systemUpdater = ZeroSystem
    /\ rpmOstreeUpdater = ZeroSystem
    /\ brewUpdater = NilDriver
    /\ flatpakUpdater = ZeroMultiUser
    /\ distroboxUpdater = ZeroMultiUser
    /\ setEnabledArg = [d \in DriverNames |-> NotCalled]
    /\ isBootc = FALSE
    /\ enableUpd = TRUE
    /\ mainSystemDriver = NilDriver
    /\ totalSteps = 0
    /\ completedSteps = 0
    /\ events = <<>>
    /\ updaters = <<>>
    /\ idx = 0
    /\ invoked = <<>>
    /\ outputs = <<>>
    /\ procs = <<>>
    /\ systemOutdated = FALSE
    /\ errlog = {}
    /\ emitted = <<>>
    /\ report = "running"
    /\ AuxIdle

\* d.Steps() on the driver variable of that name
StepsOf(d) ==
    CASE d = "Bootc"      -> SystemUpdater_Steps(systemUpdater)
      [] d = "rpm-ostree" -> RpmOstreeUpdater_Steps(rpmOstreeUpdater)
      [] d = "Brew"       -> BrewUpdater_Steps(brewUpdater)
      [] d = "Flatpak"    -> FlatpakUpdater_Steps(flatpakUpdater)
      [] d = "Distrobox"  -> DistroboxUpdater_Steps(distroboxUpdater)

\* The five constructors, on one init configuration.
D_New ==
    /\ pc = "Zero"
    /\ \E ci \in BOOLEAN, dry \in BOOLEAN :
          LET initConfiguration == UpdaterInitConfiguration(ci, dry, FALSE)
          IN  /\ Ci' = ci
              /\ dryRun' = dry
              /\ systemUpdater' = SystemUpdater_New(initConfiguration)
              /\ rpmOstreeUpdater' = RpmOstreeUpdater_New(initConfiguration)
              /\ brewUpdater' = BrewUpdater_New(initConfiguration)
              /\ flatpakUpdater' = FlatpakUpdater_New(initConfiguration)
              /\ distroboxUpdater' = DistroboxUpdater_New(initConfiguration)
    /\ users' = <<>>
    /\ pc' = "Configuring"
    /\ UNCHANGED <<lockHolder, verboseRun, progressEnabled, setEnabledArg,
                   isBootc, enableUpd, mainSystemDriver, totalSteps,
                   completedSteps, events, updaters, idx, invoked, outputs,
                   procs, systemOutdated, errlog, emitted, report>>
    /\ UNCHANGED aux

\* d.SetEnabled(value)
D_SetEnabled(d, value) ==
    /\ pc = "Configuring"
    /\ systemUpdater' =
           IF d = "Bootc" THEN SystemUpdater_SetEnabled(systemUpdater, value)
           ELSE systemUpdater
    /\ rpmOstreeUpdater' =
           IF d = "rpm-ostree"
           THEN RpmOstreeUpdater_SetEnabled(rpmOstreeUpdater, value)
           ELSE rpmOstreeUpdater
    /\ brewUpdater' =
           IF d = "Brew" THEN BrewUpdater_SetEnabled(brewUpdater, value)
           ELSE brewUpdater
    /\ flatpakUpdater' =
           IF d = "Flatpak"
           THEN FlatpakUpdater_SetEnabled(flatpakUpdater, value)
           ELSE flatpakUpdater
    /\ distroboxUpdater' =
           IF d = "Distrobox"
           THEN DistroboxUpdater_SetEnabled(distroboxUpdater, value)
           ELSE distroboxUpdater
    /\ setEnabledArg' = [setEnabledArg EXCEPT ![d] = Called(value)]
    /\ UNCHANGED <<pc, lockHolder, dryRun, verboseRun, progressEnabled, Ci,
                   users, isBootc, enableUpd, mainSystemDriver, totalSteps,
                   completedSteps, events, updaters, idx, invoked, outputs,
                   procs, systemOutdated, errlog, emitted, report>>
    /\ UNCHANGED aux

\* SetUsers(users) on both multi-user drivers, as lines 73-76 call it.
D_SetUsers(n) ==
    /\ pc \in {"Zero", "Configuring"}
    /\ users' = UserList(n)
    /\ flatpakUpdater' = FlatpakUpdater_SetUsers(flatpakUpdater, users')
    /\ distroboxUpdater' = DistroboxUpdater_SetUsers(distroboxUpdater, users')
    /\ UNCHANGED <<pc, lockHolder, dryRun, verboseRun, progressEnabled, Ci,
                   systemUpdater, rpmOstreeUpdater, brewUpdater,
                   setEnabledArg, isBootc, enableUpd, mainSystemDriver,
                   totalSteps, completedSteps, events, updaters, idx,
                   invoked, outputs, procs, systemOutdated, errlog, emitted,
                   report>>
    /\ UNCHANGED aux

\* d.Steps(): a value receiver that assigns nothing.
D_Steps(d) ==
    /\ pc \in {"Zero", "Configuring", "Queried"}
    /\ ret' = [call |-> "Steps", driver |-> d, value |-> StepsOf(d)]
    /\ pc' = "Queried"
    /\ UNCHANGED <<lockHolder, dryRun, verboseRun, progressEnabled, Ci,
                   users, systemUpdater, rpmOstreeUpdater, brewUpdater,
                   flatpakUpdater, distroboxUpdater, setEnabledArg, isBootc,
                   enableUpd, mainSystemDriver, totalSteps, completedSteps,
                   events, updaters, idx, invoked, outputs, procs,
                   systemOutdated, errlog, emitted, report>>
    /\ UNCHANGED <<version, runs, lockFile, arg>>

\* Lines 103-118 of cmd.Update: the main system driver, its Check() and the
\* step total.
D_Total ==
    /\ pc = "Configuring"
    /\ \E probe \in {"error", "changes", "nochanges"} :
          LET main == IF ~SystemUpdater_Config(systemUpdater).Enabled
                      THEN rpmOstreeUpdater ELSE systemUpdater
              r == Check(main, probe)
          IN  /\ mainSystemDriver' = main
              /\ enableUpd' = r.ok
              /\ errlog' = IF r.err
                           THEN errlog \cup {"Failed checking for updates"}
                           ELSE errlog
              /\ totalSteps' = BrewUpdater_Steps(brewUpdater)
                                 + FlatpakUpdater_Steps(flatpakUpdater)
                                 + DistroboxUpdater_Steps(distroboxUpdater)
                                 + (IF r.ok THEN Steps(main) ELSE 0)
    /\ pc' = "Accounted"
    /\ UNCHANGED <<lockHolder, dryRun, verboseRun, progressEnabled, Ci,
                   users, systemUpdater, rpmOstreeUpdater, brewUpdater,
                   flatpakUpdater, distroboxUpdater, setEnabledArg, isBootc,
                   completedSteps, events, updaters, idx, invoked, outputs,
                   procs, systemOutdated, emitted, report>>
    /\ UNCHANGED aux

NextDriver ==
    \/ D_New
    \/ \E d \in DriverNames, value \in BOOLEAN : D_SetEnabled(d, value)
    \/ \E n \in 0..MaxSessions : D_SetUsers(n)
    \/ \E d \in DriverNames : D_Steps(d)
    \/ D_Total

SpecDriver == InitDriver /\ [][NextDriver]_vars

-----------------------------------------------------------------------------
(* Two runs of cmd.Update from line 115 on that differ in --no-progress    *)
(* only: the same other flags, the same users, the same drivers out of     *)
(* lines 61-113 and the same subprocess outcomes.                          *)

Renderings == {"progress", "no-progress"}

\* The value of the --no-progress flag in each of the two runs.
NoProgress(r) == r = "no-progress"

\* A run at line 115.  rendering: the goroutine of pw.Render() is running;
\* drawn: how many of the run's progress events it has put on the terminal.
NewRendering ==
    [pc |-> "Accounting", progressEnabled |-> FALSE, rendering |-> FALSE,
     drawn |-> 0, totalSteps |-> 0, completedSteps |-> 0, events |-> <<>>,
     updaters |-> <<>>, idx |-> 0, invoked |-> <<>>, outputs |-> <<>>,
     procs |-> <<>>, emitted |-> <<>>, report |-> "running"]

\* What lines 30-113 hand to both runs: the flags, the users, the drivers
\* and the answer of Check().
InitProgress ==
    /\ RunInit
    /\ lockHolder = "none"
    /\ version = "part_001"
    /\ lockFile = NoRun
    /\ ret = NoCall
    /\ runs = [r \in Renderings |-> NewRendering]
    /\ \E ci \in BOOLEAN, dry \in BOOLEAN, verbose \in BOOLEAN,
          n \in 0..MaxUsers, brewErr \in BOOLEAN, rpmErr \in BOOLEAN,
          bootc \in BOOLEAN, enable \in BOOLEAN :
          LET initConfiguration == UpdaterInitConfiguration(ci, dry, verbose)
              sys1 == SystemUpdater_SetEnabled(
                          SystemUpdater_New(initConfiguration),
                          ~rpmErr /\ bootc)
              rpm1 == RpmOstreeUpdater_SetEnabled(
                          RpmOstreeUpdater_New(initConfiguration),
                          ~rpmErr /\ ~bootc)
          IN  arg = [call |-> "Update",
                     verboseRun |-> verbose,
                     users |-> UserList(n),
                     enableUpd |-> enable,
                     mainSystemDriver |->
                         IF ~SystemUpdater_Config(sys1).Enabled
                         THEN rpm1 ELSE sys1,
                     brewUpdater |->
                         BrewUpdater_SetEnabled(
                             BrewUpdater_New(initConfiguration), ~brewErr),
                     flatpakUpdater |->
                         FlatpakUpdater_SetUsers(
                             FlatpakUpdater_SetEnabled(
                                 FlatpakUpdater_New(initConfiguration), TRUE),
                             UserList(n)),
                     distroboxUpdater |->
                         DistroboxUpdater_SetUsers(
                             DistroboxUpdater_SetEnabled(
                                 DistroboxUpdater_New(initConfiguration),
                                 TRUE),
                             UserList(n))]

\* Lines 115-118.
TotalSteps(in) ==
    BrewUpdater_Steps(in.brewUpdater)
      + FlatpakUpdater_Steps(in.flatpakUpdater)
      + DistroboxUpdater_Steps(in.distroboxUpdater)
      + (IF in.enableUpd THEN Steps(in.mainSystemDriver) ELSE 0)

\* Lines 119-146 and 165 with the flag read: the renderer is started when
\* progress is enabled, the tracker goes to the multi-user drivers, and the
\* drivers are copied into updaters.
Tracked(run, in, noProgress) ==
    LET progress == ~noProgress
        trackerConfig == TrackerConfiguration(progress)
    IN  [run EXCEPT !.totalSteps = TotalSteps(in),
                    !.progressEnabled = progress,
                    !.rendering = progress,
                    !.updaters =
                        <<in.mainSystemDriver, in.brewUpdater,
                          [in.flatpakUpdater EXCEPT
                               !.Tracker = trackerConfig],
                          [in.distroboxUpdater EXCEPT
                               !.Tracker = trackerConfig]>>,
                    !.pc = "Executing"]

\* Lines 123-127: the flag cannot be read.
FlagFailed(run, in) ==
    [run EXCEPT !.totalSteps = TotalSteps(in),
                !.report = "Failed to get flag",
                !.pc = "Done"]

\* Lines 182-213: pw.Stop() and the report.
Reported(run, verbose) ==
    [run EXCEPT !.rendering = FALSE,
                !.emitted = IF verbose THEN run.outputs
                            ELSE Failures(run.outputs),
                !.report = IF verbose THEN "Verbose run requested"
                           ELSE IF Len(Failures(run.outputs)) > 0
                           THEN "Exited with failed updates."
                           ELSE "Updates Completed Successfully",
                !.pc = "Done"]

\* Lines 167-180: one iteration of the loop over updaters.
Iterated(run, fails) ==
    LET updater == run.updaters[run.idx + 1]
        drvConfig == updater.config
        res == DriverUpdate(updater, fails)
        msg == IF ~drvConfig.MultiUser
               THEN <<ChangeTrackerMessageFancy(
                          run.progressEnabled,
                          TrackerMessage(drvConfig.Title,
                                         drvConfig.Description))>>
               ELSE <<>>
        evs == msg \o res.events \o <<IncrementSection(res.err)>>
    IN  IF ~drvConfig.Enabled
        THEN [run EXCEPT !.idx = @ + 1]
        ELSE [run EXCEPT !.idx = @ + 1,
                         !.events = @ \o evs,
                         !.completedSteps = @ + CountInc(evs),
                         !.outputs = @ \o res.out,
                         !.procs = @ \o res.procs,
                         !.invoked = Append(@, run.idx + 1)]

\* The flag is read in both runs.  flagErr: the lookup fails.
PAccount ==
    /\ \A r \in Renderings : runs[r].pc = "Accounting"
    /\ \E flagErr \in BOOLEAN :
          runs' = [r \in Renderings |->
                      IF flagErr
                      THEN FlagFailed(runs[r], arg)
                      ELSE Tracked(runs[r], arg, NoProgress(r))]
    /\ UNCHANGED <<version, lockFile, arg, ret>>
    /\ UNCHANGED runVars

\* Both runs reach the same updater, whose subprocesses end the same way in
\* both; after the last updater each run reports.
PIterate ==
    /\ \A r \in Renderings :
          runs[r].pc = "Executing" /\ runs[r].idx < Len(runs[r].updaters)
    /\ \E updater \in
             {runs["progress"].updaters[runs["progress"].idx + 1]} :
       \E fails \in Outcomes(Units(updater)) :
          runs' = [r \in Renderings |->
                      LET run == Iterated(runs[r], fails)
                      IN  IF run.idx = Len(run.updaters)
                          THEN Reported(run, arg.verboseRun)
                          ELSE run]
    /\ UNCHANGED <<version, lockFile, arg, ret>>
    /\ UNCHANGED runVars

\* The renderer draws the progress events emitted so far.
PRender(r) ==
    /\ runs[r].rendering
    /\ runs[r].drawn # Len(runs[r].events)
    /\ runs' = [runs EXCEPT ![r].drawn = Len(runs[r].events)]
    /\ UNCHANGED <<version, lockFile, arg, ret>>
    /\ UNCHANGED runVars

NextProgress ==
    \/ PAccount
    \/ PIterate
    \/ \E r \in Renderings : PRender(r)

SpecProgress == InitProgress /\ [][NextProgress]_vars

-----------------------------------------------------------------------------
(* Properties                                                              *)

\* The fallback selection of lines 100-106 has run.
Selected == setEnabledArg["Bootc"].called

\* Construction of the system drivers succeeded (enableUpd at line 100).
ConstructionOk ==
    setEnabledArg["Bootc"].value \/ setEnabledArg["rpm-ostree"].value

\* The loop over updaters has run to its end.
Executed == updaters # <<>> /\ idx = Len(updaters) /\ pc = "Done"

DriverOf(d) ==
    CASE d = "Bootc"      -> systemUpdater
      [] d = "rpm-ostree" -> rpmOstreeUpdater
      [] d = "Brew"       -> brewUpdater
      [] d = "Flatpak"    -> flatpakUpdater
      [] d = "Distrobox"  -> distroboxUpdater

\* The Update() calls made so far on multi-user drivers in real mode.
RealMultiUser ==
    {i \in 1..Len(invoked) :
        InvDriver(i).config.MultiUser /\ ~InvDriver(i).config.DryRun}

\* C1: after the fallback selection, the image-native driver (SystemUpdater)
\* and the legacy driver (RpmOstreeUpdater) are never both enabled.
C1_FallbackExclusive ==
    Selected =>
        ~(SystemUpdater_Config(systemUpdater).Enabled
          /\ RpmOstreeUpdater_Config(rpmOstreeUpdater).Enabled)

\* C2: after the fallback selection the image-native driver is enabled iff
\* isBootc holds and construction succeeded, the legacy driver is enabled
\* iff construction succeeded and isBootc does not hold, and
\* mainSystemDriver is the image-native driver iff isBootc holds with
\* construction succeeded, and the legacy one whenever isBootc is false.
C2_SelectionFollowsIsBootc ==
    Selected =>
        /\ SystemUpdater_Config(systemUpdater).Enabled
              <=> (isBootc /\ ConstructionOk)
        /\ RpmOstreeUpdater_Config(rpmOstreeUpdater).Enabled
              <=> (~isBootc /\ ConstructionOk)
        /\ (Title(mainSystemDriver) = Str("Bootc"))
              <=> (isBootc /\ ConstructionOk)
        /\ ~isBootc => Title(mainSystemDriver) = Str("rpm-ostree")

\* C3: once SetEnabled(v) has returned on SystemUpdater, FlatpakUpdater or
\* DistroboxUpdater, Config().Enabled is v, and Steps() is 0 when v is
\* false and at least 1 when v is true.
C3_SetEnabledTakesEffect ==
    \A d \in {"Bootc", "Flatpak", "Distrobox"} :
        setEnabledArg[d].called =>
            /\ DriverOf(d).config.Enabled = setEnabledArg[d].value
            /\ IF setEnabledArg[d].value
               THEN Steps(DriverOf(d)) >= 1
               ELSE Steps(DriverOf(d)) = 0

\* C4: the totalSteps fixed before execution equals the sum of Steps() over
\* the drivers of the updaters slice that are enabled, i.e. that the
\* Executing loop runs.
C4_TotalIsSumOfEnabledSteps ==
    updaters # <<>> =>
        totalSteps =
            SumSeq([i \in 1..Len(updaters) |->
                      IF updaters[i].config.Enabled
                      THEN Steps(updaters[i]) ELSE 0])

\* C5: in every reachable state completedSteps, the number of
\* IncrementSection calls made so far, is at most totalSteps.
C5_CompletedNeverExceedsTotal ==
    pc \in {"Outdated", "Executing"} \/ Executed
        => completedSteps <= totalSteps

\* C6: every run that got through the Executing phase has
\* completedSteps = totalSteps.
C6_ExecutedRunCompletesAllSteps ==
    Executed => completedSteps = totalSteps

\* C7: in dry-run mode every Update() the orchestrator invokes returns an
\* empty CommandOutput sequence and launches no external subprocess.
C7_DryRunUpdateDoesNothing ==
    \A i \in 1..Len(invoked) :
        InvDriver(i).config.DryRun =>
            invoked[i].outLen = 0 /\ invoked[i].procLen = 0

\* The same driver value with the other value of DryRun.
OtherMode(up) == [up EXCEPT !.config.DryRun = ~up.config.DryRun]

NoFailure(up) == [j \in 1..Units(up) |-> FALSE]

\* C8: the progress events (label changes and increments) an Update() of a
\* multi-user driver emits are the ones the same driver with the same users
\* emits in the other mode (dry-run against real).
C8_DryRunEventsMatchReal ==
    \A i \in 1..Len(invoked) :
        InvDriver(i).config.MultiUser =>
            InvEvents(i) =
                DriverUpdate(OtherMode(InvDriver(i)),
                             NoFailure(InvDriver(i))).events

\* C9: in real mode the sequence a multi-user driver's Update() returns is
\* the root action's result followed by one result per registered user in
\* the order of the session enumeration, each under its own context label
\* and in the order the commands were run, whichever of them failed.
C9_ResultsInSessionOrder ==
    \A i \in RealMultiUser :
        LET up == InvDriver(i)
            out == InvOut(i)
            ps == InvProcs(i)
        IN  /\ up.users = users
            /\ Len(out) = 1 + Len(users)
            /\ Len(ps) = 1 + Len(users)
            /\ out[1].Context = up.config.Description
            /\ ps[1].uid = 0
            /\ \A k \in 1..Len(users) :
                  /\ out[k + 1].Context =
                         up.config.UserDescription \o Str(" ") \o users[k].Name
                  /\ ps[k + 1].uid = users[k].UID
                  /\ \A j \in 1..(k + 1) :
                        out[j].Context = out[k + 1].Context => j = k + 1

\* C9 witness: a real-mode Update() over two users whose first user's
\* action failed and whose second user's action succeeded.
C9_Witness ==
    \E i \in RealMultiUser :
        /\ Len(InvDriver(i).users) >= 2
        /\ InvOut(i)[2].Failure
        /\ ~InvOut(i)[3].Failure

\* The enabled drivers among the first n entries of the updaters slice.
EnabledUpTo(n) ==
    SelectSeq(SubSeq(updaters, 1, n), LAMBDA u : u.config.Enabled)

\* C10: a failed action stops no sibling work.  Within a multi-user driver
\* every registered user is attempted exactly once and the result recorded
\* for it is the outcome of its own command, whatever failed before it;
\* and the drivers whose Update() has been invoked are exactly the enabled
\* drivers the loop has passed, in order, whatever earlier Update() calls
\* failed or returned.
C10_FailureStopsNoSibling ==
    /\ \A i \in RealMultiUser :
          LET up == InvDriver(i)
              out == InvOut(i)
              ps == InvProcs(i)
          IN  /\ Len(out) = Len(ps)
              /\ \A k \in 1..Len(up.users) :
                    /\ Cardinality({j \in 1..Len(ps) :
                                       ps[j].uid = up.users[k].UID}) = 1
                    /\ k + 1 <= Len(ps)
                    /\ ps[k + 1].uid = up.users[k].UID
                    /\ out[k + 1].Failure = ps[k + 1].failed
    /\ LET passed == EnabledUpTo(idx)
       IN  /\ Len(invoked) = Len(passed)
           /\ \A i \in 1..Len(invoked) : InvDriver(i) = passed[i]

\* C10 witness: a run whose first invoked driver returned an error, whose
\* multi-user driver failed at its root action and at its first user, and
\* which still ran the second user and a later driver.
C10_Witness ==
    /\ Len(invoked) >= 3
    /\ InvErr(1)
    /\ \E i \in RealMultiUser :
          /\ i < Len(invoked)
          /\ Len(InvDriver(i).users) >= 2
          /\ InvOut(i)[1].Failure
          /\ InvOut(i)[2].Failure
          /\ ~InvOut(i)[3].Failure

\* The run has acquired the lock and has not ended.
PastLocking(r) == runs[r].pc \in {"Preflight", "Executing"}

\* C11: of two runs on one host, the one that finds the lock held ends at
\* once, in its very next step, having invoked no driver's Update(); and at
\* no time have both runs passed Locking.
C11_BusyRunRefusedAtOnce ==
    /\ [](/\ \A r \in RunIds :
                runs[r].end = "lock busy" =>
                    runs[r].pc = "Done" /\ runs[r].updates = 0 /\ runs[r].idx = 0
          /\ ~(\A r \in RunIds : PastLocking(r)))
    /\ [][\A r \in RunIds :
             (runs[r].pc = "Locking" /\ lockFile # NoRun /\ runs'[r] # runs[r])
                 => runs'[r].pc = "Done" /\ runs'[r].end = "lock busy"]_vars

\* One run is at work and the other has been refused.
C11_Witness ==
    \E r, o \in RunIds :
       /\ PastLocking(r) /\ runs[r].updates > 0
       /\ runs[o].end = "lock busy"

\* C12: a run that acquired the lock does not end with it still held.
C12_EveryExitReleases ==
    \A r \in RunIds :
       (runs[r].pc = "Done" /\ runs[r].end # "lock busy") => lockFile # r

\* What the log holds when a run was aborted before the drivers are run.
AbortMessages == PreflightFailures \cup {"is uupd already running?"}

\* C13: a run that found the lock busy, could not parse a flag, failed the
\* hardware check or could not list the users has ended, with no driver's
\* Update() invoked and no CommandOutput collected or reported.
C13_AbortBeforeAnyUpdate ==
    errlog \cap AbortMessages # {} =>
        /\ pc = "Done"
        /\ report \in AbortMessages \cup {"lock busy"}
        /\ idx = 0 /\ invoked = <<>> /\ procs = <<>>
        /\ outputs = <<>> /\ emitted = <<>>

\* The latest abort: the drivers are constructed and probed, the step total
\* is computed, and the --no-progress flag cannot be read.
C13_Witness ==
    /\ pc = "Done"
    /\ report = "Failed to get flag"
    /\ totalSteps > 0
    /\ invoked = <<>>

\* C14: Outdated() on the system driver answers (false, nil) in a dry run
\* and runs no command for it; otherwise it fails when the status command
\* or the decoding of its output fails, answers (false, nil) when the
\* timestamp cannot be parsed, and else answers whether the booted image's
\* timestamp lies more than one month before now.
C14_OutdatedIffOlderThanAMonth ==
    ret.call = "Outdated" =>
        LET r == ret.value
        IN  IF arg.dr.config.DryRun
            THEN ~r.ok /\ ~r.err /\ ~r.probed
            ELSE /\ r.probed
                 /\ r.err <=> arg.probe.status \in {"error", "badjson"}
                 /\ r.ok <=> /\ arg.probe.status = "ok"
                             /\ arg.probe.now - arg.probe.timestamp > TimeUnit

\* A real call that found the image older than a month.
C14_Witness ==
    /\ ret.call = "Outdated"
    /\ ~arg.dr.config.DryRun
    /\ ret.value.ok
    /\ arg.probe.timestamp > 0

\* The drivers of the scenario of C15, requested through their methods: no
\* system driver, Brew, and Flatpak as the one multi-user driver, with
\* three user sessions, in a real run.
C15_Scenario ==
    /\ ~dryRun
    /\ setEnabledArg["Bootc"] = Called(FALSE)
    /\ setEnabledArg["rpm-ostree"] = Called(FALSE)
    /\ setEnabledArg["Brew"] = Called(TRUE)
    /\ setEnabledArg["Flatpak"] = Called(TRUE)
    /\ setEnabledArg["Distrobox"] = Called(FALSE)
    /\ Len(users) = 3

C16_ReportPartitionsByFailure ==
    Executed =>
        LET failed == {i \in 1..Len(outputs) : outputs[i].Failure}
        IN  IF verboseRun
            THEN emitted = outputs
            ELSE /\ Len(emitted) = Cardinality(failed)
                 /\ \A k \in 1..Len(emitted) :
                       /\ emitted[k].Failure
                       /\ \E i \in failed :
                             /\ emitted[k] = outputs[i]
                             /\ Cardinality({j \in failed : j < i}) = k - 1
                 /\ report = "Updates Completed Successfully" <=> failed = {}

\* A run that is not verbose, with two failed outputs among others.
C16_Witness ==
    /\ Executed
    /\ ~verboseRun
    /\ Len(emitted) = 2
    /\ Len(outputs) > 2
    /\ ~outputs[1].Failure

\* What a run that recorded failures ends with.
FailureStatuses == {"Exited with failed updates."}

\* C17: how a run ends tells whether it recorded a failure, in verbose and
\* in non-verbose mode: the runs with a failed output, and only they, end
\* with a status of their own.
C17_StatusTellsFailure ==
    Executed =>
        ((\E i \in 1..Len(outputs) : outputs[i].Failure)
             <=> report \in FailureStatuses)

\* The Update() calls made on the main system driver, first in updaters.
SystemInvocations == {i \in 1..Len(invoked) : invoked[i].index = 1}

\* Steps() of the three other drivers.
OtherSteps ==
    BrewUpdater_Steps(brewUpdater) + FlatpakUpdater_Steps(flatpakUpdater)
        + DistroboxUpdater_Steps(distroboxUpdater)

\* C19: Check() on the main system driver decides whether it takes part.
\* When it answered false, the driver's Update() is not invoked and it adds
\* nothing to totalSteps; when it answered true and the driver is enabled,
\* Update() is invoked once and it adds 1.
C19_CheckDecidesParticipation ==
    Executed =>
        /\ ~enableUpd =>
              SystemInvocations = {} /\ totalSteps = OtherSteps
        /\ (enableUpd /\ mainSystemDriver.config.Enabled) =>
              Cardinality(SystemInvocations) = 1
                  /\ totalSteps = OtherSteps + 1

\* Check() (Outdated()) on the main system driver returned an error.
CheckFailed == "Failed checking for updates" \in errlog

OutdatedFailed == "Failed checking if system is out of date" \in errlog

\* Every enabled driver after the system driver had its Update() invoked.
OthersInvoked ==
    \A k \in 2..Len(updaters) :
       updaters[k].config.Enabled =>
           \E i \in 1..Len(invoked) : invoked[i].index = k

\* The run passes from each probe to the next phase whatever it returned.
ProbesNeverEndTheRun ==
    /\ pc = "Probing" => pc' = "Accounting"
    /\ pc = "Outdated" => pc' = "Executing"

\* C20 as claimed: a probe that fails is logged and taken as false (no
\* update available, not outdated), and the run goes on to the drivers.
C20_FailedProbeTakenAsFalse ==
    /\ (CheckFailed /\ pc # "Probing") => ~enableUpd
    /\ OutdatedFailed => ~systemOutdated
    /\ (pc = "Done" /\ (CheckFailed \/ OutdatedFailed)
            /\ report # "Failed to get flag")
           => Executed /\ OthersInvoked

\* C20 as the code has it: a probe that fails is logged and the run goes on
\* to the drivers; a failed Outdated() is taken as false, a failed Check()
\* of the image-native driver as true (an update is attempted).
C20_FailedCheckTakenAsTrue ==
    /\ [](/\ (CheckFailed /\ pc # "Probing"
                  /\ Title(mainSystemDriver) = Str("Bootc")) => enableUpd
          /\ OutdatedFailed => ~systemOutdated
          /\ (pc = "Done" /\ (CheckFailed \/ OutdatedFailed)
                  /\ report # "Failed to get flag")
                 => Executed /\ OthersInvoked)
    /\ [][ProbesNeverEndTheRun]_vars

\* Both probes of the image-native driver failed and the run executed, the
\* system update included.
C20_Witness ==
    /\ Executed
    /\ CheckFailed /\ OutdatedFailed
    /\ Title(mainSystemDriver) = Str("Bootc")
    /\ SystemInvocations # {}
    /\ \E i \in 1..Len(invoked) : invoked[i].index = 4

\* The step count C18 gives for the driver named d: users holds what
\* SetUsers was last called with since construction, nothing when it was
\* not called.
C18_Expected(d) ==
    LET up == DriverOf(d)
    IN  IF ~up.config.Enabled THEN 0
        ELSE IF ~up.config.MultiUser THEN 1
        ELSE 1 + Len(users)

\* C18: Steps() is 0 for a disabled driver, 1 for an enabled single-user
\* driver, and 1 plus the number of users registered with SetUsers for an
\* enabled multi-user driver (1 when SetUsers was not called); and a call
\* of Steps() leaves every driver as it was.
C18_StepsCountsUnits ==
    /\ [](/\ \A d \in DriverNames : StepsOf(d) = C18_Expected(d)
          /\ ret.call = "Steps" => ret.value = C18_Expected(ret.driver))
    /\ [][(ret' # ret /\ ret'.call = "Steps") =>
              UNCHANGED <<systemUpdater, rpmOstreeUpdater, brewUpdater,
                          flatpakUpdater, distroboxUpdater, users>>]_vars

\* Steps() was called on the Flatpak driver with users registered, and on
\* a driver that is disabled.
C18_Witness ==
    /\ ret.call = "Steps"
    /\ ret.driver = "Flatpak"
    /\ ret.value > 2
    /\ ~systemUpdater.config.Enabled
    /\ StepsOf("Bootc") = 0

\* drv.BrewUpdater{}.New (drv.RpmOstreeUpdater{}.New) returned an error: the
\* constructors of the run that can.
BrewFailed == setEnabledArg["Brew"] = Called(FALSE)

RpmOstreeFailed == Selected /\ ~ConstructionOk

\* The Update() calls made on the driver of that title.
InvocationsOf(title) ==
    {i \in 1..Len(invoked) : Title(InvDriver(i)) = Str(title)}

\* Every enabled driver of updaters had its Update() invoked.
EnabledInvoked ==
    \A k \in 1..Len(updaters) :
       updaters[k].config.Enabled =>
           \E i \in 1..Len(invoked) : invoked[i].index = k

\* The run passes from the constructors to the next phase whatever they
\* returned.
ConstructorsNeverEndTheRun ==
    /\ pc = "Initializing" => pc' = "Selecting"
    /\ pc = "Selecting" => pc' = "Probing"

\* C21: a driver whose constructor returned an error is disabled for the
\* run, with Steps() 0 and no Update() invoked on it; the run is not
\* aborted for it, and every enabled driver still has its Update() invoked.
C21_FailedConstructorDisablesDriver ==
    /\ [](/\ BrewFailed =>
                /\ ~BrewUpdater_Config(brewUpdater).Enabled
                /\ BrewUpdater_Steps(brewUpdater) = 0
                /\ InvocationsOf("Brew") = {}
          /\ RpmOstreeFailed =>
                /\ ~RpmOstreeUpdater_Config(rpmOstreeUpdater).Enabled
                /\ RpmOstreeUpdater_Steps(rpmOstreeUpdater) = 0
                /\ InvocationsOf("rpm-ostree") = {}
          /\ (pc = "Done" /\ (BrewFailed \/ RpmOstreeFailed)
                  /\ report # "Failed to get flag")
                 => Executed /\ EnabledInvoked)
    /\ [][ConstructorsNeverEndTheRun]_vars

\* The Brew constructor failed and the run executed the multi-user drivers.
C21_Witness ==
    /\ Executed
    /\ BrewFailed
    /\ InvocationsOf("Flatpak") # {}
    /\ InvocationsOf("Distrobox") # {}

\* The updaters slice as line 165 builds it.
FixedOrder ==
    /\ Len(updaters) = 4
    /\ Title(updaters[1]) \in {Str("Bootc"), Str("rpm-ostree")}
    /\ Title(updaters[2]) = Str("Brew")
    /\ Title(updaters[3]) = Str("Flatpak")
    /\ Title(updaters[4]) = Str("Distrobox")

\* C22: Update() is invoked at most once per driver, after a failure too,
\* on enabled drivers only and in the order system driver, Brew, Flatpak,
\* Distrobox; the outputs of the run are the outputs the invocations
\* returned, concatenated in that order.
C22_OncePerDriverInFixedOrder ==
    /\ updaters # <<>> => FixedOrder
    /\ \A i \in 1..Len(invoked) :
          /\ InvDriver(i).config.Enabled
          /\ i > 1 => invoked[i - 1].index < invoked[i].index
    /\ outputs = Flatten([i \in 1..Len(invoked) |-> InvOut(i)])

\* All four drivers were invoked, the first with an error, and each of
\* them returned outputs.
C22_Witness ==
    /\ Executed
    /\ Len(invoked) = 4
    /\ InvErr(1)
    /\ \A i \in 1..4 : InvOut(i) # <<>>

\* C25: the multi-user drivers in the updaters slice carry the tracker
\* configuration of the run and the users handed to SetUsers, so every
\* Update() the loop invokes on them, in a dry run or not, with progress on
\* or off, finds a Tracker that is not nil, and none panics.
C25_TrackerAndUsersReachUpdate ==
    /\ pc # "Panicked"
    /\ \A k \in 1..Len(updaters) :
          updaters[k].config.MultiUser =>
              /\ updaters[k].Tracker # NoValue
              /\ updaters[k].Tracker = TrackerConfiguration(progressEnabled)
              /\ updaters[k].usersEnabled
              /\ updaters[k].users = users

\* A dry run without progress that invoked Update() on both multi-user
\* drivers, with users.
C25_Witness ==
    /\ Executed
    /\ dryRun /\ ~progressEnabled
    /\ users # <<>>
    /\ InvocationsOf("Flatpak") # {}
    /\ InvocationsOf("Distrobox") # {}

\* What is in outputs stays there, in place and unchanged.
OutputsOnlyGrow ==
    /\ Len(outputs') >= Len(outputs)
    /\ SubSeq(outputs', 1, Len(outputs)) = outputs

\* C24: in real mode an Update() returns one CommandOutput for each unit of
\* work it attempted, the root-level command and the command of each user,
\* as many as the driver's Steps(); and no step changes, reorders or
\* removes an output already collected.
C24_OneOutputPerUnit ==
    /\ [](\A i \in 1..Len(invoked) :
             ~InvDriver(i).config.DryRun =>
                 /\ Len(InvOut(i)) = Steps(InvDriver(i))
                 /\ Len(InvOut(i)) = Len(InvProcs(i))
                 /\ \A j \in 1..Len(InvOut(i)) :
                       InvOut(i)[j].Failure = InvProcs(i)[j].failed)
    /\ [][OutputsOnlyGrow]_vars

\* A real run with users in which all four drivers returned outputs.
C24_Witness ==
    /\ Executed
    /\ ~dryRun
    /\ Len(invoked) = 4
    /\ Len(users) > 1
    /\ Len(outputs) = totalSteps

\* What a run did and said, apart from what it put on the terminal as
\* progress: the Update() calls in order, the subprocesses launched, the
\* outputs collected, the step counters and the report.
Conduct(run) ==
    [pc |-> run.pc, idx |-> run.idx, invoked |-> run.invoked,
     procs |-> run.procs, outputs |-> run.outputs,
     totalSteps |-> run.totalSteps, completedSteps |-> run.completedSteps,
     emitted |-> run.emitted, report |-> run.report]

\* A driver without the Progress switch of its tracker configuration.
Unswitched(up) ==
    IF "Tracker" \in DOMAIN up /\ up.Tracker # NoValue
    THEN [up EXCEPT !.Tracker.Progress = FALSE]
    ELSE up

\* A step of the renderer leaves the drivers, the results and the step
\* counters of its run as they were.
RendererOnlyDraws ==
    \A r \in Renderings :
       runs'[r].drawn # runs[r].drawn =>
           /\ Conduct(runs'[r]) = Conduct(runs[r])
           /\ runs'[r].updaters = runs[r].updaters
           /\ runs'[r].events = runs[r].events

\* C23: of two runs with the same flags apart from --no-progress, the same
\* users and the same subprocess outcomes, the one that renders progress
\* and the one that does not invoke the same drivers' Update() in the same
\* order, collect the same outputs and give the same report; the renderer
\* writes neither driver state nor results nor step counters.
C23_RenderingChangesNoConduct ==
    /\ [](/\ Conduct(runs["progress"]) = Conduct(runs["no-progress"])
          /\ \A k \in 1..Len(runs["progress"].updaters) :
                Unswitched(runs["progress"].updaters[k])
                  = Unswitched(runs["no-progress"].updaters[k]))
    /\ [][RendererOnlyDraws]_vars

\* Both runs are over with a failure reported after four Update() calls on
\* drivers with users; one has drawn its progress, the other has drawn
\* nothing, and their progress events differ.
C23_Witness ==
    /\ \A r \in Renderings :
          /\ runs[r].pc = "Done"
          /\ Len(runs[r].invoked) = 4
          /\ Len(runs[r].outputs) > 4
          /\ runs[r].report = "Exited with failed updates."
    /\ runs["progress"].drawn > 0
    /\ runs["no-progress"].drawn = 0
    /\ runs["progress"].events # runs["no-progress"].events

====
